---- MODULE Spec2Model ----
(***************************************************************************)
(* Model of qdl.c: the USB transport bootstrap of the qdl flashing tool.   *)
(*                                                                         *)
(*   SpecIO  : qdl_read / qdl_write on an opened session                  *)
(*   SpecUsb : usb_open / parse_usb_desc over the attached devices        *)
(*   SpecMain: main, from the command line to the exit status             *)
(*                                                                         *)
(* Descriptors are inputs: each is drawn from its set at the step where    *)
(* the code reads it from libusb.                                          *)
(*                                                                         *)
(* C integers keep their width.  The widths are scaled down (int is        *)
(* IntBits wide, size_t is SizeBits wide, SizeBits > IntBits as on LP64)   *)
(* so that every value of both types is enumerated.                        *)
(***************************************************************************)
EXTENDS Integers, Sequences, FiniteSets, TLC

\* ------------------------------------------------------------------------
\* Integer types
\* ------------------------------------------------------------------------

\* width of int (scaled)
IntBits == 4

\* width of size_t (scaled)
SizeBits == 5

INT_MAX == 2^(IntBits - 1) - 1

INT_MIN == -(2^(IntBits - 1))

SIZE_MAX == 2^SizeBits - 1

\* conversion of an integer value to int: reduced modulo 2^IntBits
ToInt(v) == ((v + 2^(IntBits - 1)) % 2^IntBits) - 2^(IntBits - 1)

\* conversion of an integer value to size_t: reduced modulo 2^SizeBits
ToSizeT(v) == v % 2^SizeBits

\* ------------------------------------------------------------------------
\* Bounds of the environment
\* ------------------------------------------------------------------------

\* largest wMaxPacketSize a bulk endpoint reports
MaxPkt == 3

\* number of qdl_read / qdl_write calls the protocol engines make
MaxCalls == 1

\* number of USB devices attached
MaxDevs == 2

\* number of support files on the command line
MaxFiles == 3

\* number of child nodes of the root element of a support file
MaxChildren == 2

\* largest bNumConfigurations of a device
MaxConfigs == 2

\* largest bNumInterfaces of a configuration
MaxInterfaces == 2

\* largest bNumEndpoints of an interface
MaxEndpoints == 2

\* ------------------------------------------------------------------------
\* libusb
\* ------------------------------------------------------------------------

LIBUSB_SUCCESS == 0

LIBUSB_ERROR_IO == -1

LIBUSB_ERROR_TIMEOUT == -7

\* the return values of libusb_bulk_transfer
TransferResults == {LIBUSB_SUCCESS, LIBUSB_ERROR_IO, LIBUSB_ERROR_TIMEOUT}

\* the timeouts callers pass to qdl_read (0 is "no timeout")
Timeouts == {0, 1}

\* bulk endpoint addresses (bit 0x80 is LIBUSB_ENDPOINT_IN)
InAddrs == {129, 131}

OutAddrs == {1, 2}

Max(a, b) == IF a > b THEN a ELSE b

\* the byte counts libusb_bulk_transfer can report for a transfer of
\* `length` bytes that returned `ret`: anything up to the length
TransferredCounts(length, ret) == 0 .. Max(length, 0)

\* ------------------------------------------------------------------------
\* USB descriptors
\* ------------------------------------------------------------------------

LIBUSB_DT_DEVICE == 1

LIBUSB_DT_CONFIG == 2

LIBUSB_DT_INTERFACE == 4

LIBUSB_DT_ENDPOINT == 5

LIBUSB_DT_INTERFACE_SIZE == 9

LIBUSB_TRANSFER_TYPE_MASK == 3

LIBUSB_TRANSFER_TYPE_BULK == 2

LIBUSB_ENDPOINT_IN == 128

EINVAL == 22

ENOENT == 2

\* 0x05c6
QcVendor == 1478

\* 0x9008
QcProduct == 36872

\* x & mask for a mask 2^n - 1
LowBits(x, mask) == x % (mask + 1)

\* x & bit for a single bit 2^n
TestBit(x, bit) == (x \div bit) % 2 = 1

\* the value an object holds before anything was assigned to it
Indet == -1

\* the value of usbret while usb_open has not returned
NotReturned == 1

\* an operation of libusb on the library (dev = -1) or on a device
UsbOp(name, d) == <<name, d>>

\* the values an indeterminate unsigned / int may turn out to hold
IndetAddrs == {0, 129}

\* the values an indeterminate size_t may turn out to hold
IndetSizes == {0, MaxPkt}

\* the value read from an object: its value, or any value if it has none
ReadOf(v, indet) == IF v = Indet THEN indet ELSE {v}

\* the wMaxPacketSize of the endpoint with a given address
PacketSizeOf(addr) == IF addr \in {129, 1} THEN MaxPkt - 1 ELSE MaxPkt

\* struct libusb_device_descriptor, the fields parse_usb_desc reads; the
\* descriptor type is read only after the identity test has passed, so a
\* wrong type is offered only with the right identity
DeviceDescs ==
    {d \in [idVendor : {QcVendor, 4660},
            idProduct : {QcProduct, 36873},
            bDescriptorType : {LIBUSB_DT_DEVICE, 0},
            bNumConfigurations : 0 .. MaxConfigs] :
        d.bDescriptorType # LIBUSB_DT_DEVICE =>
            d.idVendor = QcVendor /\ d.idProduct = QcProduct}

\* struct libusb_config_descriptor
ConfigDescs == [bDescriptorType : {LIBUSB_DT_CONFIG, 0},
                bNumInterfaces : 0 .. MaxInterfaces]

\* struct libusb_interface_descriptor (the first alternate setting): the
\* fields read before and by the endpoint loop
InterfaceDescs == [bDescriptorType : {LIBUSB_DT_INTERFACE, 0},
                   bLength : {LIBUSB_DT_INTERFACE_SIZE,
                              LIBUSB_DT_INTERFACE_SIZE - 1},
                   bNumEndpoints : 0 .. MaxEndpoints]

\* struct libusb_interface_descriptor: the fields read after the endpoint
\* loop
InterfaceIds == [bInterfaceClass : {255, 8},
                 bInterfaceSubClass : {255, 6},
                 bInterfaceProtocol : {255, 16, 80},
                 bInterfaceNumber : 0 .. 1]

\* struct libusb_endpoint_descriptor
EndpointDescs ==
    {e \in [bDescriptorType : {LIBUSB_DT_ENDPOINT, 0},
            bmAttributes : {LIBUSB_TRANSFER_TYPE_BULK, 3},
            bEndpointAddress : InAddrs \cup OutAddrs,
            wMaxPacketSize : {MaxPkt - 1, MaxPkt}] :
        e.wMaxPacketSize = PacketSizeOf(e.bEndpointAddress)}

\* descriptor objects before anything was read into them
NoDesc == [bDescriptorType |-> Indet]

\* no bulk endpoint was read in the current interface
NoEndpoints == [in |-> NoDesc, out |-> NoDesc, bulk |-> 0]

VARIABLES
    qdl,          \* struct qdl_device
    exitCode,     \* exit status of the process, Running while it runs
    iopc,         \* position inside qdl_read / qdl_write
    len,          \* qdl_write / qdl_read parameter len
    eot,          \* qdl_write parameter eot
    timeout,      \* qdl_read parameter timeout
    size,         \* qdl_write local
    writed,       \* qdl_write local
    transferred,  \* qdl_write / qdl_read local
    ret,          \* qdl_write / qdl_read local
    result,       \* value returned to the caller by the last call
    returned,     \* the last call has returned to its caller
    xfers,        \* bulk transfers issued by the current call, in order
    reported,     \* sum of the byte counts reported for the data chunks
    calls,        \* number of calls made so far
    op,           \* the primitive called last: "none", "read" or "write"
    pc,           \* position of the process in main / usb_open / parse_usb_desc
    attached,     \* number of USB devices attached
    usb_size,     \* usb_open local: length of the device list
    dev,          \* usb_open local i: index into the device list
    intf,         \* usb_open local
    usbret,       \* value returned by parse_usb_desc / usb_open
    desc,         \* parse_usb_desc local
    cfg,          \* parse_usb_desc local i: configuration index
    config,       \* parse_usb_desc local
    j,            \* parse_usb_desc local: interface index
    altsetting,   \* parse_usb_desc: interface.altsetting
    k,            \* parse_usb_desc local: endpoint index
    in,           \* parse_usb_desc local
    out,          \* parse_usb_desc local
    in_size,      \* parse_usb_desc local
    out_size,     \* parse_usb_desc local
    endpoints,    \* of interface.altsetting->endpoint[0 .. k-1], as read so
                  \* far: the last bulk endpoint of each direction and the
                  \* number of bulk endpoints
    usbOps,       \* the libusb operations performed so far
    opened,       \* indices of the devices opened, in order
    claimed,      \* <<handle, interface number>> of the claims made, in order
    listFreed,    \* number of libusb_free_device_list calls
    devices,      \* identity of each device whose descriptor was read
    malformed,    \* a descriptor with a wrong type or length was read
    missed,       \* the filter skipped an interface that has the signature
    npos,         \* argc - optind after getopt_long: positional arguments
    xml_file,     \* the document detect_type is called on
    optind,       \* index of the current positional argument, from 0
    type,         \* main local
    finalize,     \* main local qdl_finalize_provisioning
    classified,   \* calls of detect_type per support file
    loaded,       \* calls of a loader per support file
    staged,       \* the support files whose loader returned success
    lastLoad,     \* the last loader call: file, loader and finalize argument
    engines,      \* the protocol engines invoked, in order
    cause         \* the statement that ended the process

\* the variables of qdl_read / qdl_write
iovars == <<iopc, len, eot, timeout, size, writed, transferred, ret,
            result, returned, xfers, reported, calls, op>>

\* the variables of usb_open and parse_usb_desc
usbvars == <<attached, usb_size, dev, intf, usbret, desc, cfg, config, j,
             altsetting, k, in, out, in_size, out_size, endpoints, usbOps, opened,
             claimed, listFreed, devices, malformed, missed>>

\* the variables of main
mainvars == <<npos, xml_file, optind, type, finalize, classified, loaded,
              staged, lastLoad, engines, cause>>

\* the variables of main other than cause
mainlocals == <<npos, xml_file, optind, type, finalize, classified, loaded,
                staged, lastLoad, engines>>

vars == <<qdl, exitCode, pc, iovars, usbvars, mainvars>>

\* the value of exitCode while the process has not terminated
Running == -1

\* the process has terminated
exited == exitCode # Running

\* the struct qdl_device of an opened session
Sessions == [handle : {1}, in_ep : InAddrs, out_ep : OutAddrs,
             in_maxpktsize : {MaxPkt}, out_maxpktsize : 1 .. MaxPkt]

\* no document is being classified
NoDoc == [parsed |-> FALSE, root |-> "none", children |-> <<>>]

\* no loader was called yet
NoLoad == [file |-> 0, loader |-> "none", finalize |-> FALSE]

\* struct qdl_device qdl; in main: nothing is assigned yet
NoSession == [handle |-> Indet, in_ep |-> Indet, out_ep |-> Indet,
              in_maxpktsize |-> Indet, out_maxpktsize |-> Indet]

\* the locals of usb_open and parse_usb_desc before usb_open is called
UsbIdle ==
    /\ usb_size = 0
    /\ dev = 0
    /\ intf = -1
    /\ usbret = NotReturned
    /\ desc = NoDesc
    /\ cfg = 0
    /\ config = NoDesc
    /\ j = 0
    /\ altsetting = NoDesc
    /\ k = 0
    /\ in = Indet
    /\ out = Indet
    /\ in_size = Indet
    /\ out_size = Indet
    /\ endpoints = NoEndpoints
    /\ usbOps = {}
    /\ opened = <<>>
    /\ claimed = <<>>
    /\ listFreed = 0
    /\ devices = <<>>
    /\ malformed = FALSE
    /\ missed = FALSE

\* main before it starts
MainIdle ==
    /\ optind = 0
    /\ type = 0
    /\ finalize = FALSE
    /\ classified = [f \in 1 .. MaxFiles |-> 0]
    /\ loaded = [f \in 1 .. MaxFiles |-> 0]
    /\ staged = {}
    /\ lastLoad = NoLoad
    /\ engines = <<>>
    /\ cause = "none"

\* qdl_read / qdl_write before the first call
IoIdle ==
    /\ iopc = "idle"
    /\ len = 0
    /\ eot = FALSE
    /\ timeout = 0
    /\ size = 0
    /\ writed = 0
    /\ transferred = 0
    /\ ret = 0
    /\ result = 0
    /\ returned = FALSE
    /\ xfers = <<>>
    /\ reported = 0
    /\ calls = 0
    /\ op = "none"

\* a protocol engine holds an opened session
InitIO ==
    /\ qdl \in Sessions
    /\ exitCode = Running
    /\ pc = "engine"
    /\ attached = 1
    /\ npos = 2
    /\ xml_file = NoDoc
    /\ UsbIdle
    /\ MainIdle
    /\ IoIdle

\* one libusb_bulk_transfer call as recorded in xfers
Xfer(kind, ep, length, tmo, r) ==
    [kind |-> kind, ep |-> ep, length |-> length, timeout |-> tmo, ret |-> r]

\* the capacities callers pass to qdl_read: the transfer is a single
\* libusb_bulk_transfer, whose length parameter is an int
ReadCapacities == 0 .. INT_MAX

\* qdl_read that returns the transferred count whatever the transfer returned
QdlRead_IgnoresRet ==
    /\ iopc = "idle"
    /\ ~exited
    /\ calls < MaxCalls
    /\ \E l \in ReadCapacities, t \in Timeouts, r \in TransferResults :
         \E n \in TransferredCounts(ToInt(l), r) :
            /\ len' = l
            /\ timeout' = t
            /\ ret' = r
            /\ transferred' = n
            /\ xfers' = <<Xfer("in", qdl.in_ep, ToInt(l), t, r)>>
            /\ result' = n
    /\ returned' = TRUE
    /\ calls' = calls + 1
    /\ op' = "read"
    /\ UNCHANGED <<qdl, iopc, eot, size, writed, exitCode, reported>>
    /\ UNCHANGED <<pc, usbvars, mainvars>>

\* qdl_read: one bulk-IN transfer, returns ret ? ret : transferred
QdlRead ==
    /\ iopc = "idle"
    /\ ~exited
    /\ calls < MaxCalls
    /\ \E l \in ReadCapacities, t \in Timeouts, r \in TransferResults :
         \E n \in TransferredCounts(ToInt(l), r) :
            /\ len' = l
            /\ timeout' = t
            /\ ret' = r
            /\ transferred' = n
            /\ xfers' = <<Xfer("in", qdl.in_ep, ToInt(l), t, r)>>
            /\ result' = IF r # 0 THEN r ELSE n
    /\ returned' = TRUE
    /\ calls' = calls + 1
    /\ op' = "read"
    /\ UNCHANGED <<qdl, iopc, eot, size, writed, exitCode, reported>>
    /\ UNCHANGED <<pc, usbvars, mainvars>>

\* qdl_write entry: the declarations of line 262
QdlWriteCall ==
    /\ iopc = "idle"
    /\ ~exited
    /\ calls < MaxCalls
    /\ \E l \in 0 .. SIZE_MAX, e \in BOOLEAN :
         /\ len' = l
         /\ eot' = e
         /\ size' = ToInt(l)
    /\ transferred' = 0
    /\ writed' = 0
    /\ ret' = -1
    /\ xfers' = <<>>
    /\ reported' = 0
    /\ returned' = FALSE
    /\ iopc' = "write_loop"
    /\ calls' = calls + 1
    /\ op' = "write"
    /\ UNCHANGED <<qdl, timeout, result, exitCode>>
    /\ UNCHANGED <<pc, usbvars, mainvars>>

\* int xfer = (size > qdl->out_maxpktsize) ? qdl->out_maxpktsize : size;
\* the comparison is made in size_t
XferLen(sz, maxpkt) ==
    IF ToSizeT(sz) > maxpkt THEN ToInt(maxpkt) ELSE sz

\* one iteration of while (size > 0) whose transfer succeeds
QdlWriteChunk ==
    /\ iopc = "write_loop"
    /\ size > 0
    /\ LET xfer == XferLen(size, qdl.out_maxpktsize) IN
         /\ xfers' = Append(xfers, Xfer("data", qdl.out_ep, xfer, 0,
                                        LIBUSB_SUCCESS))
         /\ \E n \in TransferredCounts(xfer, LIBUSB_SUCCESS) :
              /\ transferred' = n
              /\ reported' = reported + n
         /\ ret' = LIBUSB_SUCCESS
         /\ writed' = ToInt(writed + xfer)
         /\ size' = ToInt(size - xfer)
    /\ UNCHANGED <<qdl, iopc, len, eot, timeout, result, returned, exitCode, calls, op>>
    /\ UNCHANGED <<pc, usbvars, mainvars>>

\* a failed chunk that is logged and skipped instead of ending the process
QdlWriteChunkFail_Continues ==
    /\ iopc = "write_loop"
    /\ size > 0
    /\ LET xfer == XferLen(size, qdl.out_maxpktsize) IN
         /\ \E r \in TransferResults \ {LIBUSB_SUCCESS} :
              \E n \in TransferredCounts(xfer, r) :
                 /\ xfers' = Append(xfers,
                                    Xfer("data", qdl.out_ep, xfer, 0, r))
                 /\ ret' = r
                 /\ transferred' = n
         /\ writed' = ToInt(writed + xfer)
         /\ size' = ToInt(size - xfer)
    /\ UNCHANGED <<qdl, iopc, len, eot, timeout, result, returned, exitCode,
                   reported, calls, op>>
    /\ UNCHANGED <<pc, usbvars, mainvars>>

\* one iteration of while (size > 0) whose transfer fails: err(1, ...)
QdlWriteChunkFail ==
    /\ iopc = "write_loop"
    /\ size > 0
    /\ LET xfer == XferLen(size, qdl.out_maxpktsize) IN
         \E r \in TransferResults \ {LIBUSB_SUCCESS} :
            \E n \in TransferredCounts(xfer, r) :
               /\ xfers' = Append(xfers, Xfer("data", qdl.out_ep, xfer, 0, r))
               /\ ret' = r
               /\ transferred' = n
    /\ exitCode' = 1
    /\ cause' = "libusb_bulk_transfer"
    /\ iopc' = "exit"
    /\ UNCHANGED <<qdl, len, eot, timeout, size, writed, result, returned, reported,
                   calls, op>>
    /\ UNCHANGED <<pc, usbvars, mainlocals>>

\* an end-of-transfer test that forgets the packet-multiple condition
NeedZlp_EotOnly == eot

\* if (eot && len % qdl->out_maxpktsize == 0)
NeedZlp == eot /\ len % qdl.out_maxpktsize = 0

\* the loop is left and the end-of-transfer condition is false
QdlWriteNoZlp ==
    /\ iopc = "write_loop"
    /\ ~(size > 0)
    /\ ~NeedZlp
    /\ iopc' = "write_ret"
    /\ UNCHANGED <<qdl, len, eot, timeout, size, writed, transferred, ret,
                   result, returned, exitCode, xfers, reported, calls, op>>
    /\ UNCHANGED <<pc, usbvars, mainvars>>

\* the loop is left and the zero-length packet is sent
QdlWriteZlp ==
    /\ iopc = "write_loop"
    /\ ~(size > 0)
    /\ NeedZlp
    /\ xfers' = Append(xfers, Xfer("zlp", qdl.out_ep, 0, 0, LIBUSB_SUCCESS))
    /\ ret' = LIBUSB_SUCCESS
    /\ transferred' = 0
    /\ iopc' = "write_ret"
    /\ UNCHANGED <<qdl, len, eot, timeout, size, writed, result, returned, exitCode,
                   reported, calls, op>>
    /\ UNCHANGED <<pc, usbvars, mainvars>>

\* the loop is left and the zero-length packet fails: err(1, ...)
QdlWriteZlpFail ==
    /\ iopc = "write_loop"
    /\ ~(size > 0)
    /\ NeedZlp
    /\ \E r \in TransferResults \ {LIBUSB_SUCCESS} :
         /\ xfers' = Append(xfers, Xfer("zlp", qdl.out_ep, 0, 0, r))
         /\ ret' = r
    /\ transferred' = 0
    /\ exitCode' = 1
    /\ cause' = "libusb_bulk_transfer"
    /\ iopc' = "exit"
    /\ UNCHANGED <<qdl, len, eot, timeout, size, writed, result, returned, reported,
                   calls, op>>
    /\ UNCHANGED <<pc, usbvars, mainlocals>>

\* return writed;
QdlWriteReturn ==
    /\ iopc = "write_ret"
    /\ result' = writed
    /\ returned' = TRUE
    /\ iopc' = "idle"
    /\ UNCHANGED <<qdl, len, eot, timeout, size, writed, transferred, ret,
                   exitCode, xfers, reported, calls, op>>
    /\ UNCHANGED <<pc, usbvars, mainvars>>

NextIO ==
    \/ QdlRead
    \/ QdlWriteCall
    \/ QdlWriteChunk
    \/ QdlWriteChunkFail
    \/ QdlWriteNoZlp
    \/ QdlWriteZlp
    \/ QdlWriteZlpFail
    \/ QdlWriteReturn

SpecIO == InitIO /\ [][NextIO]_vars

\* ------------------------------------------------------------------------
\* usb_open and parse_usb_desc
\* ------------------------------------------------------------------------

\* err(1, ...) / errx(1, ...) at statement `at`: the process ends with exit
\* status 1
Err(at) ==
    /\ exitCode' = 1
    /\ cause' = at
    /\ pc' = "exit"

\* libusb_init succeeds
UsbInit ==
    /\ pc = "usb_open"
    /\ intf' = -1
    /\ usbOps' = usbOps \cup {UsbOp("init", -1)}
    /\ pc' = "get_list"
    /\ UNCHANGED <<qdl, exitCode, iovars, mainvars, attached, usb_size, dev, usbret,
            desc, cfg, config, j, altsetting, k, in, out, in_size, out_size, endpoints,
            opened, claimed, listFreed, devices, malformed, missed>>

\* libusb_init fails
UsbInitFail ==
    /\ pc = "usb_open"
    /\ intf' = -1
    /\ usbOps' = usbOps \cup {UsbOp("init", -1)}
    /\ Err("libusb_init")
    /\ UNCHANGED <<qdl, iovars, mainlocals, attached, usb_size, dev, usbret, desc,
            cfg, config, j, altsetting, k, in, out, in_size, out_size, endpoints, opened,
            claimed, listFreed, devices, malformed, missed>>

\* libusb_get_device_list returns the attached devices
GetDeviceList ==
    /\ pc = "get_list"
    /\ usb_size' = attached
    /\ dev' = 0
    /\ usbOps' = usbOps \cup {UsbOp("list", -1)}
    /\ pc' = "dev_loop"
    /\ UNCHANGED <<qdl, exitCode, iovars, mainvars, attached, intf, usbret, desc,
            cfg, config, j, altsetting, k, in, out, in_size, out_size, endpoints, opened,
            claimed, listFreed, devices, malformed, missed>>

\* libusb_get_device_list fails
GetDeviceListFail ==
    /\ pc = "get_list"
    /\ usb_size' = -1
    /\ usbOps' = usbOps \cup {UsbOp("list", -1)}
    /\ Err("libusb_get_device_list")
    /\ UNCHANGED <<qdl, iovars, mainlocals, attached, dev, intf, usbret, desc, cfg,
            config, j, altsetting, k, in, out, in_size, out_size, endpoints, opened,
            claimed, listFreed, devices, malformed, missed>>

\* the loop of usb_open calls parse_usb_desc(usb[i], qdl, &intf); the
\* locals of parse_usb_desc hold nothing yet
NextDevice ==
    /\ pc = "dev_loop"
    /\ usb_size > 0
    /\ dev < usb_size
    /\ desc' = NoDesc
    /\ config' = NoDesc
    /\ altsetting' = NoDesc
    /\ in' = Indet
    /\ out' = Indet
    /\ in_size' = Indet
    /\ out_size' = Indet
    /\ endpoints' = NoEndpoints
    /\ pc' = "dev_desc"
    /\ UNCHANGED <<qdl, exitCode, iovars, mainvars, attached, usb_size, dev,
                   intf, usbret, cfg, j, k, usbOps, opened, claimed,
                   listFreed, devices, malformed, missed>>

\* a variant in which the missing device ends the process inside usb_open
NoMoreDevices_Exits ==
    /\ pc = "dev_loop"
    /\ ~(usb_size > 0 /\ dev < usb_size)
    /\ usbret' = -ENOENT
    /\ Err("usb_open")
    /\ UNCHANGED <<qdl, iovars, mainlocals, attached, usb_size, dev, intf,
            desc, cfg, config, j, altsetting, k, in, out, in_size, out_size,
            endpoints, usbOps, opened, claimed, listFreed, devices,
            malformed, missed>>

\* the loop of usb_open ends without a match: return -ENOENT
NoMoreDevices ==
    /\ pc = "dev_loop"
    /\ ~(usb_size > 0 /\ dev < usb_size)
    /\ usbret' = -ENOENT
    /\ pc' = "usb_ret"
    /\ UNCHANGED <<qdl, exitCode, iovars, mainvars, attached, usb_size, dev, intf,
            desc, cfg, config, j, altsetting, k, in, out, in_size, out_size, endpoints,
            usbOps, opened, claimed, listFreed, devices, malformed, missed>>

\* parse_usb_desc returns: its locals are gone
ParseReturns ==
    /\ desc' = NoDesc
    /\ config' = NoDesc
    /\ altsetting' = NoDesc
    /\ in' = Indet
    /\ out' = Indet
    /\ in_size' = Indet
    /\ out_size' = Indet
    /\ endpoints' = NoEndpoints
    /\ cfg' = 0
    /\ j' = 0
    /\ k' = 0

\* a variant of ParseFails in which -EINVAL ends the loop of usb_open
ParseFails_Aborts ==
    /\ ParseReturns
    /\ dev' = usb_size
    /\ pc' = "dev_loop"

\* parse_usb_desc returns -EINVAL and the loop of usb_open moves on
ParseFails ==
    /\ ParseReturns
    /\ dev' = dev + 1
    /\ pc' = "dev_loop"

\* an identity test that rejects a device only when both ids differ
IdentityMismatch_BothDiffer(d) ==
    d.idVendor # QcVendor /\ d.idProduct # QcProduct

\* if (desc.idVendor != 0x05c6 || desc.idProduct != 0x9008)
IdentityMismatch(d) == d.idVendor # QcVendor \/ d.idProduct # QcProduct

\* the identity a device descriptor states
DeviceId(d) == [idVendor |-> d.idVendor, idProduct |-> d.idProduct]

\* libusb_get_device_descriptor fails
DeviceDescFail ==
    /\ pc = "dev_desc"
    /\ usbOps' = usbOps \cup {UsbOp("device_descriptor", dev)}
    /\ ParseReturns
    /\ Err("libusb_get_device_descriptor")
    /\ UNCHANGED <<qdl, iovars, mainlocals, attached, usb_size, dev, intf,
                   usbret, opened, claimed, listFreed, devices, malformed,
                   missed>>

\* the device descriptor fails the identity or the descriptor type check
DeviceRejected ==
    /\ pc = "dev_desc"
    /\ \E d \in DeviceDescs :
         /\ IdentityMismatch(d) \/ d.bDescriptorType # LIBUSB_DT_DEVICE
         /\ devices' = Append(devices, DeviceId(d))
         /\ malformed' = (malformed \/ d.bDescriptorType # LIBUSB_DT_DEVICE)
    /\ usbOps' = usbOps \cup {UsbOp("device_descriptor", dev)}
    /\ ParseFails
    /\ UNCHANGED <<qdl, exitCode, iovars, mainvars, attached, usb_size, intf,
                   usbret, opened, claimed, listFreed, missed>>

\* the device descriptor passes both checks: the configuration loop starts
DeviceAccepted ==
    /\ pc = "dev_desc"
    /\ \E d \in DeviceDescs :
         /\ desc' = d
         /\ ~IdentityMismatch(d)
         /\ ~(d.bDescriptorType # LIBUSB_DT_DEVICE)
         /\ devices' = Append(devices, DeviceId(d))
    /\ usbOps' = usbOps \cup {UsbOp("device_descriptor", dev)}
    /\ cfg' = 0
    /\ pc' = "cfg_loop"
    /\ UNCHANGED <<qdl, exitCode, iovars, mainvars, attached, usb_size, dev, intf,
            usbret, config, j, altsetting, k, in, out, in_size, out_size, endpoints,
            opened, claimed, listFreed, malformed, missed>>

\* libusb_get_config_descriptor fails
ConfigDescFail ==
    /\ pc = "cfg_loop"
    /\ cfg < desc.bNumConfigurations
    /\ usbOps' = usbOps \cup {UsbOp("config_descriptor", dev)}
    /\ ParseReturns
    /\ Err("libusb_get_config_descriptor")
    /\ UNCHANGED <<qdl, iovars, mainlocals, attached, usb_size, dev, intf,
                   usbret, opened, claimed, listFreed, devices, malformed,
                   missed>>

\* the configuration descriptor has the wrong type
ConfigRejected ==
    /\ pc = "cfg_loop"
    /\ cfg < desc.bNumConfigurations
    /\ {c \in ConfigDescs : c.bDescriptorType # LIBUSB_DT_CONFIG} # {}
    /\ malformed' = TRUE
    /\ usbOps' = usbOps \cup {UsbOp("config_descriptor", dev)}
    /\ ParseFails
    /\ UNCHANGED <<qdl, exitCode, iovars, mainvars, attached, usb_size, intf,
                   usbret, opened, claimed, listFreed, devices, missed>>

\* the configuration descriptor is read: the interface loop starts
ConfigAccepted ==
    /\ pc = "cfg_loop"
    /\ cfg < desc.bNumConfigurations
    /\ \E c \in ConfigDescs :
         /\ config' = c
         /\ ~(c.bDescriptorType # LIBUSB_DT_CONFIG)
    /\ usbOps' = usbOps \cup {UsbOp("config_descriptor", dev)}
    /\ j' = 0
    /\ pc' = "intf_loop"
    /\ UNCHANGED <<qdl, exitCode, iovars, mainvars, attached, usb_size, dev, intf,
            usbret, desc, cfg, altsetting, k, in, out, in_size, out_size, endpoints,
            opened, claimed, listFreed, devices, malformed, missed>>

\* the configuration loop ends: return -EINVAL (line 214)
ConfigsExhausted ==
    /\ pc = "cfg_loop"
    /\ ~(cfg < desc.bNumConfigurations)
    /\ ParseFails
    /\ UNCHANGED <<qdl, exitCode, iovars, mainvars, attached, usb_size, intf,
                   usbret, usbOps, opened, claimed, listFreed, devices,
                   malformed, missed>>

\* the interface descriptor has the wrong type or is too short
InterfaceRejected ==
    /\ pc = "intf_loop"
    /\ j < config.bNumInterfaces
    /\ {a \in InterfaceDescs :
            \/ a.bDescriptorType # LIBUSB_DT_INTERFACE
            \/ a.bLength < LIBUSB_DT_INTERFACE_SIZE} # {}
    /\ malformed' = TRUE
    /\ ParseFails
    /\ UNCHANGED <<qdl, exitCode, iovars, mainvars, attached, usb_size, intf,
                   usbret, usbOps, opened, claimed, listFreed, devices,
                   missed>>

\* the interface descriptor is sound: the endpoint loop starts
InterfaceEntered ==
    /\ pc = "intf_loop"
    /\ j < config.bNumInterfaces
    /\ \E a \in InterfaceDescs :
         /\ altsetting' = a
         /\ ~(a.bDescriptorType # LIBUSB_DT_INTERFACE)
         /\ ~(a.bLength < LIBUSB_DT_INTERFACE_SIZE)
    /\ k' = 0
    /\ pc' = "ep_loop"
    /\ UNCHANGED <<qdl, exitCode, iovars, mainvars, attached, usb_size, dev, intf,
            usbret, desc, cfg, config, j, in, out, in_size, out_size, endpoints, usbOps,
            opened, claimed, listFreed, devices, malformed, missed>>

\* the interface loop ends: the iteration's locals end with it and the
\* configuration loop goes on
InterfacesExhausted ==
    /\ pc = "intf_loop"
    /\ ~(j < config.bNumInterfaces)
    /\ config' = NoDesc
    /\ j' = 0
    /\ cfg' = cfg + 1
    /\ pc' = "cfg_loop"
    /\ UNCHANGED <<qdl, exitCode, iovars, mainvars, attached, usb_size, dev,
                   intf, usbret, desc, altsetting, k, in, out, in_size,
                   out_size, endpoints, usbOps, opened, claimed, listFreed, devices,
                   malformed, missed>>

\* (endpoint.bmAttributes & LIBUSB_TRANSFER_TYPE_MASK) != LIBUSB_TRANSFER_TYPE_BULK
NotBulk(e) ==
    LowBits(e.bmAttributes, LIBUSB_TRANSFER_TYPE_MASK)
        # LIBUSB_TRANSFER_TYPE_BULK

\* endpoint.bEndpointAddress & LIBUSB_ENDPOINT_IN
IsIn(e) == TestBit(e.bEndpointAddress, LIBUSB_ENDPOINT_IN)

\* the endpoint descriptor has the wrong type
EndpointRejected ==
    /\ pc = "ep_loop"
    /\ k < altsetting.bNumEndpoints
    /\ {e \in EndpointDescs : e.bDescriptorType # LIBUSB_DT_ENDPOINT} # {}
    /\ malformed' = TRUE
    /\ ParseFails
    /\ UNCHANGED <<qdl, exitCode, iovars, mainvars, attached, usb_size, intf,
                   usbret, usbOps, opened, claimed, listFreed, devices,
                   missed>>

\* the endpoint is not a bulk endpoint: continue
EndpointNotBulk ==
    /\ pc = "ep_loop"
    /\ k < altsetting.bNumEndpoints
    /\ \E e \in EndpointDescs :
         /\ ~(e.bDescriptorType # LIBUSB_DT_ENDPOINT)
         /\ NotBulk(e)
    /\ k' = k + 1
    /\ UNCHANGED <<qdl, exitCode, pc, iovars, mainvars, attached, usb_size, dev,
            intf, usbret, desc, cfg, config, j, altsetting, in, out, in_size,
            out_size, endpoints, usbOps, opened, claimed, listFreed, devices,
            malformed, missed>>

\* a variant in which the first bulk IN endpoint of the function is kept
EndpointBulkIn_FirstWins ==
    /\ pc = "ep_loop"
    /\ k < altsetting.bNumEndpoints
    /\ \E e \in EndpointDescs :
         /\ ~(e.bDescriptorType # LIBUSB_DT_ENDPOINT)
         /\ ~NotBulk(e)
         /\ IsIn(e)
         /\ in' = IF in = Indet THEN e.bEndpointAddress ELSE in
         /\ in_size' = IF in = Indet THEN e.wMaxPacketSize ELSE in_size
         /\ endpoints' = [endpoints EXCEPT !.in = e, !.bulk = @ + 1]
    /\ k' = k + 1
    /\ UNCHANGED <<qdl, exitCode, pc, iovars, mainvars, attached, usb_size, dev,
            intf, usbret, desc, cfg, config, j, altsetting, out, out_size,
            usbOps, opened, claimed, listFreed, devices, malformed, missed>>

\* a bulk endpoint with the IN bit set is recorded in in / in_size
EndpointBulkIn ==
    /\ pc = "ep_loop"
    /\ k < altsetting.bNumEndpoints
    /\ \E e \in EndpointDescs :
         /\ ~(e.bDescriptorType # LIBUSB_DT_ENDPOINT)
         /\ ~NotBulk(e)
         /\ IsIn(e)
         /\ in' = e.bEndpointAddress
         /\ in_size' = e.wMaxPacketSize
         /\ endpoints' = [endpoints EXCEPT !.in = e, !.bulk = @ + 1]
    /\ k' = k + 1
    /\ UNCHANGED <<qdl, exitCode, pc, iovars, mainvars, attached, usb_size, dev,
            intf, usbret, desc, cfg, config, j, altsetting, out, out_size,
            usbOps, opened, claimed, listFreed, devices, malformed, missed>>

\* a bulk endpoint without the IN bit is recorded in out / out_size
EndpointBulkOut ==
    /\ pc = "ep_loop"
    /\ k < altsetting.bNumEndpoints
    /\ \E e \in EndpointDescs :
         /\ ~(e.bDescriptorType # LIBUSB_DT_ENDPOINT)
         /\ ~NotBulk(e)
         /\ ~IsIn(e)
         /\ out' = e.bEndpointAddress
         /\ out_size' = e.wMaxPacketSize
         /\ endpoints' = [endpoints EXCEPT !.out = e, !.bulk = @ + 1]
    /\ k' = k + 1
    /\ UNCHANGED <<qdl, exitCode, pc, iovars, mainvars, attached, usb_size, dev,
            intf, usbret, desc, cfg, config, j, altsetting, in, in_size,
            usbOps, opened, claimed, listFreed, devices, malformed, missed>>

\* a filter that leaves out the protocol test
FilterSkips_NoProtocol(a) ==
    \/ a.bInterfaceClass # 255
    \/ a.bInterfaceSubClass # 255

\* the three `continue` tests of lines 186-197
FilterSkips(a) ==
    \/ a.bInterfaceClass # 255
    \/ a.bInterfaceSubClass # 255
    \/ (a.bInterfaceProtocol # 255 /\ a.bInterfaceProtocol # 16)

\* the interface signature of the download mode: class 0xFF, subclass 0xFF,
\* protocol 0xFF or 0x10
SignatureOK(a) ==
    /\ a.bInterfaceClass = 255
    /\ a.bInterfaceSubClass = 255
    /\ a.bInterfaceProtocol \in {255, 16}

\* the endpoint loop is over and the filter skips the interface: the
\* iteration's locals end with it
InterfaceSkipped ==
    /\ pc = "ep_loop"
    /\ ~(k < altsetting.bNumEndpoints)
    /\ \E ok \in {SignatureOK(id) :
                      id \in {a \in InterfaceIds : FilterSkips(a)}} :
         missed' = (missed \/ ok)
    /\ altsetting' = NoDesc
    /\ endpoints' = NoEndpoints
    /\ k' = 0
    /\ j' = j + 1
    /\ pc' = "intf_loop"
    /\ UNCHANGED <<qdl, exitCode, iovars, mainvars, attached, usb_size, dev,
                   intf, usbret, desc, cfg, config, in, out, in_size,
                   out_size, usbOps, opened, claimed, listFreed, devices,
                   malformed>>

\* the endpoint loop is over and the interface passes the filter
InterfaceMatched ==
    /\ pc = "ep_loop"
    /\ ~(k < altsetting.bNumEndpoints)
    /\ \E id \in InterfaceIds :
         /\ ~FilterSkips(id)
         /\ altsetting' =
              [bDescriptorType |-> altsetting.bDescriptorType,
               bLength |-> altsetting.bLength,
               bNumEndpoints |-> altsetting.bNumEndpoints,
               bInterfaceClass |-> id.bInterfaceClass,
               bInterfaceSubClass |-> id.bInterfaceSubClass,
               bInterfaceProtocol |-> id.bInterfaceProtocol,
               bInterfaceNumber |-> id.bInterfaceNumber]
    /\ pc' = "open"
    /\ UNCHANGED <<qdl, exitCode, iovars, mainvars, attached, usb_size, dev, intf,
            usbret, desc, cfg, config, j, k, in, out, in_size, out_size, endpoints,
            usbOps, opened, claimed, listFreed, devices, malformed, missed>>

\* libusb_open fails
DeviceOpenFail ==
    /\ pc = "open"
    /\ usbOps' = usbOps \cup {UsbOp("open", dev)}
    /\ ParseReturns
    /\ Err("libusb_open")
    /\ UNCHANGED <<qdl, iovars, mainlocals, attached, usb_size, dev, intf,
                   usbret, opened, claimed, listFreed, devices, malformed,
                   missed>>

\* libusb_open succeeds: the session is filled in from the locals, *intf is
\* set and parse_usb_desc returns 0
DeviceOpened ==
    /\ pc = "open"
    /\ usbOps' = usbOps \cup {UsbOp("open", dev)}
    /\ opened' = Append(opened, dev)
    /\ \E a \in ReadOf(in, IndetAddrs), b \in ReadOf(in_size, IndetSizes),
          c \in ReadOf(out, IndetAddrs), d \in ReadOf(out_size, IndetSizes) :
         qdl' = [handle |-> dev + 1, in_ep |-> a, in_maxpktsize |-> b,
                 out_ep |-> c, out_maxpktsize |-> d]
    /\ intf' = altsetting.bInterfaceNumber
    /\ ParseReturns
    /\ pc' = "found"
    /\ UNCHANGED <<exitCode, iovars, mainvars, attached, usb_size, dev,
                   usbret, claimed, listFreed, devices, malformed, missed>>

\* found: the device list is freed and the interface is claimed
ClaimInterface ==
    /\ pc = "found"
    /\ listFreed' = listFreed + 1
    /\ usbOps' = usbOps \cup {UsbOp("claim", qdl.handle - 1)}
    /\ claimed' = Append(claimed, <<qdl.handle, intf>>)
    /\ usbret' = 0
    /\ pc' = "usb_ret"
    /\ UNCHANGED <<qdl, exitCode, iovars, mainvars, attached, usb_size, dev, intf,
            desc, cfg, config, j, altsetting, k, in, out, in_size, out_size, endpoints,
            opened, devices, malformed, missed>>

\* found: the device list is freed and libusb_claim_interface fails
ClaimInterfaceFail ==
    /\ pc = "found"
    /\ listFreed' = listFreed + 1
    /\ usbOps' = usbOps \cup {UsbOp("claim", qdl.handle - 1)}
    /\ Err("libusb_claim_interface")
    /\ UNCHANGED <<qdl, iovars, mainlocals, attached, usb_size, dev, intf, usbret,
            desc, cfg, config, j, altsetting, k, in, out, in_size, out_size, endpoints,
            opened, claimed, devices, malformed, missed>>

\* usb_open is called with the session uninitialised
InitUsb ==
    /\ qdl = NoSession
    /\ exitCode = Running
    /\ pc = "usb_open"
    /\ attached \in 0 .. MaxDevs
    /\ npos = 2
    /\ xml_file = NoDoc
    /\ UsbIdle
    /\ MainIdle
    /\ IoIdle

NextUsb ==
    \/ UsbInit
    \/ UsbInitFail
    \/ GetDeviceList
    \/ GetDeviceListFail
    \/ NextDevice
    \/ NoMoreDevices
    \/ DeviceDescFail
    \/ DeviceRejected
    \/ DeviceAccepted
    \/ ConfigDescFail
    \/ ConfigRejected
    \/ ConfigAccepted
    \/ ConfigsExhausted
    \/ InterfaceRejected
    \/ InterfaceEntered
    \/ InterfacesExhausted
    \/ EndpointRejected
    \/ EndpointNotBulk
    \/ EndpointBulkIn
    \/ EndpointBulkOut
    \/ InterfaceSkipped
    \/ InterfaceMatched
    \/ DeviceOpenFail
    \/ DeviceOpened
    \/ ClaimInterface
    \/ ClaimInterfaceFail

SpecUsb == InitUsb /\ [][NextUsb]_vars

\* ------------------------------------------------------------------------
\* detect_type
\* ------------------------------------------------------------------------

QDL_FILE_UNKNOWN == 0

QDL_FILE_PATCH == 1

QDL_FILE_PROGRAM == 2

QDL_FILE_UFS == 3

QDL_FILE_CONTENTS == 4

XML_ELEMENT_NODE == 1

\* the child nodes of a root element: elements, a text node and a comment
Nodes == {[type |-> XML_ELEMENT_NODE, name |-> "program"],
          [type |-> XML_ELEMENT_NODE, name |-> "ufs"],
          [type |-> XML_ELEMENT_NODE, name |-> "foo"],
          [type |-> 3, name |-> "text"],
          [type |-> 8, name |-> "comment"]}

\* the sequences of at most n nodes
RECURSIVE NodeSeqs(_)
NodeSeqs(n) ==
    IF n = 0 THEN {<<>>}
    ELSE NodeSeqs(n - 1) \cup
         {Append(q, x) : q \in {r \in NodeSeqs(n - 1) : Len(r) = n - 1},
                         x \in Nodes}

\* what xmlReadFile yields for a support file: no document, or a document
\* with a root element and its children
Docs == {[parsed |-> FALSE, root |-> "", children |-> <<>>]} \cup
        [parsed : {TRUE},
         root : {"patches", "data", "contents", "widget"},
         children : NodeSeqs(MaxChildren)]

\* a loop without the break statements: the last matching child wins
RECURSIVE DataType_LastWins(_)
DataType_LastWins(nodes) ==
    IF nodes = <<>> THEN QDL_FILE_UNKNOWN
    ELSE IF Head(nodes).type = XML_ELEMENT_NODE
            /\ Head(nodes).name \in {"program", "ufs"}
            /\ DataType_LastWins(Tail(nodes)) = QDL_FILE_UNKNOWN
         THEN IF Head(nodes).name = "program" THEN QDL_FILE_PROGRAM
              ELSE QDL_FILE_UFS
    ELSE DataType_LastWins(Tail(nodes))

\* the loop over root->children of lines 95-106
RECURSIVE DataType(_)
DataType(nodes) ==
    IF nodes = <<>> THEN QDL_FILE_UNKNOWN
    ELSE IF Head(nodes).type # XML_ELEMENT_NODE THEN DataType(Tail(nodes))
    ELSE IF Head(nodes).name = "program" THEN QDL_FILE_PROGRAM
    ELSE IF Head(nodes).name = "ufs" THEN QDL_FILE_UFS
    ELSE DataType(Tail(nodes))

detect_type(doc) ==
    IF ~doc.parsed THEN -EINVAL
    ELSE IF doc.root = "patches" THEN QDL_FILE_PATCH
    ELSE IF doc.root = "data" THEN DataType(doc.children)
    ELSE IF doc.root = "contents" THEN QDL_FILE_CONTENTS
    ELSE QDL_FILE_UNKNOWN

\* detect_type(xml_file) is called on its own
InitClassify ==
    /\ qdl = NoSession
    /\ exitCode = Running
    /\ pc = "detect_type"
    /\ attached = 0
    /\ npos = 2
    /\ xml_file \in Docs
    /\ UsbIdle
    /\ MainIdle
    /\ IoIdle

\* detect_type returns -EINVAL: the file could not be parsed
ClassifyFails ==
    /\ pc = "detect_type"
    /\ detect_type(xml_file) < 0
    /\ type' = detect_type(xml_file)
    /\ pc' = "done"
    /\ UNCHANGED <<qdl, exitCode, iovars, usbvars, npos, xml_file, optind,
                   finalize, classified, loaded, staged, lastLoad, engines,
                   cause>>

\* detect_type returns the kind of the document
Classify ==
    /\ pc = "detect_type"
    /\ ~(detect_type(xml_file) < 0)
    /\ type' = detect_type(xml_file)
    /\ pc' = "done"
    /\ UNCHANGED <<qdl, exitCode, iovars, usbvars, npos, xml_file, optind,
                   finalize, classified, loaded, staged, lastLoad, engines,
                   cause>>

NextClassify ==
    \/ ClassifyFails
    \/ Classify

SpecClassify == InitClassify /\ [][NextClassify]_vars

\* ------------------------------------------------------------------------
\* main
\* ------------------------------------------------------------------------

\* return 1 / return 0 from main at statement `at`
Return(code, at) ==
    /\ exitCode' = code
    /\ cause' = at
    /\ pc' = "exit"

\* getopt_long meets an unknown option: print_usage, return 1
OptionsRejected ==
    /\ pc = "getopt"
    /\ \E f \in BOOLEAN : finalize' = f
    /\ Return(1, "getopt_long")
    /\ UNCHANGED <<qdl, iovars, usbvars, npos, xml_file, optind, type,
                   classified, loaded, staged, lastLoad, engines>>

\* the option loop ends
OptionsParsed ==
    /\ pc = "getopt"
    /\ \E f \in BOOLEAN : finalize' = f
    /\ pc' = "args"
    /\ UNCHANGED <<qdl, exitCode, iovars, usbvars, npos, xml_file, optind,
                   type, classified, loaded, staged, lastLoad, engines,
                   cause>>

\* if ((optind + 2) > argc): print_usage, return 1
TooFewArguments ==
    /\ pc = "args"
    /\ 2 > npos
    /\ Return(1, "usage")
    /\ UNCHANGED <<qdl, iovars, usbvars, mainlocals>>

\* a variant of TakeProgrammer that asks for one positional argument only
TakeProgrammer_OneSuffices ==
    /\ pc = "args"
    /\ ~(1 > npos)
    /\ optind' = optind + 1
    /\ pc' = "detect"
    /\ UNCHANGED <<qdl, exitCode, iovars, usbvars, npos, xml_file, type,
                   finalize, classified, loaded, staged, lastLoad, engines,
                   cause>>

\* prog_mbn = argv[optind++]
TakeProgrammer ==
    /\ pc = "args"
    /\ ~(2 > npos)
    /\ optind' = optind + 1
    /\ pc' = "detect"
    /\ UNCHANGED <<qdl, exitCode, iovars, usbvars, npos, xml_file, type,
                   finalize, classified, loaded, staged, lastLoad, engines,
                   cause>>

\* type = detect_type(argv[optind])
DetectType ==
    /\ pc = "detect"
    /\ \E doc \in Docs : type' = detect_type(doc)
    /\ classified' = [classified EXCEPT ![optind] = @ + 1]
    /\ pc' = "switch"
    /\ UNCHANGED <<qdl, exitCode, iovars, usbvars, npos, xml_file, optind,
                   finalize, loaded, staged, lastLoad, engines, cause>>

\* if (type < 0 || type == QDL_FILE_UNKNOWN) errx(1, ...)
DetectFailed ==
    /\ pc = "switch"
    /\ type < 0 \/ type = QDL_FILE_UNKNOWN
    /\ Err("detect_type")
    /\ UNCHANGED <<qdl, iovars, usbvars, mainlocals>>

\* the file goes past the test of line 354
Detected == ~(type < 0 \/ type = QDL_FILE_UNKNOWN)

\* a loader is called for argv[optind] and returns success
Load(name, arg) ==
    /\ loaded' = [loaded EXCEPT ![optind] = @ + 1]
    /\ lastLoad' = [file |-> optind, loader |-> name, finalize |-> arg]
    /\ staged' = staged \cup {optind}
    /\ pc' = "while"
    /\ UNCHANGED <<qdl, exitCode, iovars, usbvars, npos, xml_file, optind,
                   type, finalize, classified, engines, cause>>

\* a variant of LoadFail in which the failure is reported but the loop
\* goes on
LoadFail_Continues(name, arg) ==
    /\ loaded' = [loaded EXCEPT ![optind] = @ + 1]
    /\ lastLoad' = [file |-> optind, loader |-> name, finalize |-> arg]
    /\ cause' = name
    /\ pc' = "while"
    /\ UNCHANGED <<qdl, exitCode, iovars, usbvars, npos, xml_file, optind,
                   type, finalize, classified, staged, engines>>

\* a loader is called for argv[optind] and returns a negative value
LoadFail(name, arg) ==
    /\ loaded' = [loaded EXCEPT ![optind] = @ + 1]
    /\ lastLoad' = [file |-> optind, loader |-> name, finalize |-> arg]
    /\ Err(name)
    /\ UNCHANGED <<qdl, iovars, usbvars, npos, xml_file, optind, type,
                   finalize, classified, staged, engines>>

\* case QDL_FILE_PATCH
PatchLoad ==
    /\ pc = "switch"
    /\ Detected
    /\ type = QDL_FILE_PATCH
    /\ Load("patch_load", FALSE)

PatchLoadFail ==
    /\ pc = "switch"
    /\ Detected
    /\ type = QDL_FILE_PATCH
    /\ LoadFail("patch_load", FALSE)

\* case QDL_FILE_PROGRAM
ProgramLoad ==
    /\ pc = "switch"
    /\ Detected
    /\ type = QDL_FILE_PROGRAM
    /\ Load("program_load", FALSE)

ProgramLoadFail ==
    /\ pc = "switch"
    /\ Detected
    /\ type = QDL_FILE_PROGRAM
    /\ LoadFail("program_load", FALSE)

\* a variant in which a Contents file is handed to ufs_load
UfsLoad_AlsoContents ==
    /\ pc = "switch"
    /\ Detected
    /\ type \in {QDL_FILE_UFS, QDL_FILE_CONTENTS}
    /\ Load("ufs_load", finalize)

\* case QDL_FILE_UFS
UfsLoad ==
    /\ pc = "switch"
    /\ Detected
    /\ type = QDL_FILE_UFS
    /\ Load("ufs_load", finalize)

UfsLoadFail ==
    /\ pc = "switch"
    /\ Detected
    /\ type = QDL_FILE_UFS
    /\ LoadFail("ufs_load", finalize)

\* default: errx(1, "%s type not yet supported", ...)
TypeNotSupported ==
    /\ pc = "switch"
    /\ Detected
    /\ type \notin {QDL_FILE_PATCH, QDL_FILE_PROGRAM, QDL_FILE_UFS}
    /\ Err("not_supported")
    /\ UNCHANGED <<qdl, iovars, usbvars, mainlocals>>

\* a variant of MoreFiles in which the loop stops one file early
MoreFiles_SkipsLast == optind + 2 < npos

\* while (++optind < argc)
MoreFiles == optind + 1 < npos

\* the loop goes on to the next support file
NextFile ==
    /\ pc = "while"
    /\ MoreFiles
    /\ optind' = optind + 1
    /\ pc' = "detect"
    /\ UNCHANGED <<qdl, exitCode, iovars, usbvars, npos, xml_file, type,
                   finalize, classified, loaded, staged, lastLoad, engines,
                   cause>>

\* the loop ends: ret = usb_open(&qdl)
FilesDone ==
    /\ pc = "while"
    /\ ~MoreFiles
    /\ optind' = optind + 1
    /\ pc' = "usb_open"
    /\ UNCHANGED <<qdl, exitCode, iovars, usbvars, npos, xml_file, type,
                   finalize, classified, loaded, staged, lastLoad, engines,
                   cause>>

\* if (ret) return 1;
UsbOpenFailedReturn ==
    /\ pc = "usb_ret"
    /\ usbret # 0
    /\ Return(1, "usb_open")
    /\ UNCHANGED <<qdl, iovars, usbvars, mainlocals>>

\* the values sahara_run and firehose_run return
EngineResults == {-1, 0, 1}

\* a test that takes every value but 0 for a failure
EngineFailed_NonZero(r) == r # 0

\* if (ret < 0)
EngineFailed(r) == r < 0

\* a protocol engine runs on the session, makes bulk transfers and returns r
Engine(name, r) ==
    /\ engines' = Append(engines, [name |-> name, ret |-> r])
    /\ usbOps' = usbOps \cup {UsbOp("bulk", qdl.handle - 1)}
    /\ UNCHANGED <<qdl, iovars, attached, usb_size, dev, intf, usbret, desc,
                   cfg, config, j, altsetting, k, in, out, in_size, out_size, endpoints,
                   opened, claimed, listFreed, devices, malformed, missed,
                   npos, xml_file, optind, type, finalize, classified, loaded,
                   staged, lastLoad>>

\* ret = sahara_run(&qdl, prog_mbn) returns success
SaharaRun ==
    /\ pc = "usb_ret"
    /\ ~(usbret # 0)
    /\ \E r \in EngineResults :
         /\ ~EngineFailed(r)
         /\ Engine("sahara_run", r)
    /\ pc' = "firehose"
    /\ UNCHANGED <<exitCode, cause>>

\* sahara_run returns a negative value: return 1
SaharaRunFail ==
    /\ pc = "usb_ret"
    /\ ~(usbret # 0)
    /\ \E r \in EngineResults :
         /\ EngineFailed(r)
         /\ Engine("sahara_run", r)
    /\ Return(1, "sahara_run")

\* ret = firehose_run(&qdl, incdir, storage) returns success: return 0
FirehoseRun ==
    /\ pc = "firehose"
    /\ \E r \in EngineResults :
         /\ ~EngineFailed(r)
         /\ Engine("firehose_run", r)
    /\ Return(0, "done")

\* firehose_run returns a negative value: return 1
FirehoseRunFail ==
    /\ pc = "firehose"
    /\ \E r \in EngineResults :
         /\ EngineFailed(r)
         /\ Engine("firehose_run", r)
    /\ Return(1, "firehose_run")

\* the numbers of devices attached while the dispatcher runs
MainAttached == {0, 1}

\* the process starts with its command line
InitMain ==
    /\ qdl = NoSession
    /\ exitCode = Running
    /\ pc = "getopt"
    /\ attached \in MainAttached
    /\ npos \in 0 .. MaxFiles + 1
    /\ xml_file = NoDoc
    /\ UsbIdle
    /\ MainIdle
    /\ IoIdle

NextMain ==
    \/ OptionsRejected
    \/ OptionsParsed
    \/ TooFewArguments
    \/ TakeProgrammer
    \/ DetectType
    \/ DetectFailed
    \/ PatchLoad
    \/ PatchLoadFail
    \/ ProgramLoad
    \/ ProgramLoadFail
    \/ UfsLoad
    \/ UfsLoadFail
    \/ TypeNotSupported
    \/ NextFile
    \/ FilesDone
    \/ NextUsb
    \/ UsbOpenFailedReturn
    \/ SaharaRun
    \/ SaharaRunFail
    \/ FirehoseRun
    \/ FirehoseRunFail

SpecMain == InitMain /\ [][NextMain]_vars

\* ------------------------------------------------------------------------
\* Properties of qdl_read / qdl_write (SpecIO)
\* ------------------------------------------------------------------------

RECURSIVE SumLens(_)
SumLens(s) == IF s = <<>> THEN 0 ELSE Head(s).length + SumLens(Tail(s))

IsData(x) == x.kind = "data"

\* the transfers issued by the loop of qdl_write, in order
DataXfers == SelectSeq(xfers, IsData)

\* the positions of xfers that hold a zero-length bulk-OUT transfer
ZeroLenOut == {i \in 1 .. Len(xfers) :
                 xfers[i].kind # "in" /\ xfers[i].length = 0}

\* qdl_write has issued all its transfers successfully and is about to return
WriteComplete == op = "write" /\ iopc = "write_ret"

\* qdl_write has returned to its caller
WriteReturned == op = "write" /\ iopc = "idle" /\ returned

\* the length the last of the data chunks of a buffer of n bytes has
LastChunkLen(n, P) == IF n % P = 0 THEN P ELSE n % P

\* the data transfers issued are the chunking of len bytes by out_maxpktsize
ChunkedByPacketSize ==
    LET d == DataXfers
        P == qdl.out_maxpktsize
    IN  /\ SumLens(d) = len
        /\ \A i \in 1 .. Len(d) :
             /\ d[i].ep = qdl.out_ep
             /\ d[i].length <= P
             /\ d[i].length > 0
             /\ i < Len(d) => d[i].length = P
        /\ len > 0 => Len(d) > 0 /\ d[Len(d)].length = LastChunkLen(len, P)

\* C1: when all transfers succeed, the data transfers of qdl_write go to the
\* bulk-OUT endpoint, their lengths sum to len, every one but the last has
\* length out_maxpktsize, the last has length len mod out_maxpktsize (or
\* out_maxpktsize when that is 0 and len > 0), none is longer than
\* out_maxpktsize and none has length 0.
C1_ChunkLengths == WriteComplete => ChunkedByPacketSize

\* the chunking of every length that the int copy of len represents
ChunkLengthsWithinInt == WriteComplete /\ len <= INT_MAX => ChunkedByPacketSize

\* C2: qdl_write issues a zero-length bulk-OUT transfer if and only if eot
\* is set and len is a multiple of out_maxpktsize (0 included); it is then
\* the only one and follows every data chunk; otherwise no zero-length
\* transfer is ever issued.
C2_ZeroLengthPacket ==
    /\ \A i \in ZeroLenOut :
         /\ eot /\ len % qdl.out_maxpktsize = 0
         /\ i = Len(xfers)
         /\ ZeroLenOut = {i}
    /\ WriteComplete /\ eot /\ len % qdl.out_maxpktsize = 0 =>
         /\ Len(xfers) > 0
         /\ Len(xfers) \in ZeroLenOut
         /\ \A i \in 1 .. Len(xfers) - 1 : xfers[i].kind = "data"

\* a multi-chunk write that ended with the zero-length packet
C2_Witness ==
    /\ WriteComplete
    /\ Len(DataXfers) >= 2
    /\ ZeroLenOut = {Len(xfers)}

C9_WriteFailureFatal ==
    \A i \in 1 .. Len(xfers) :
        xfers[i].kind # "in" /\ xfers[i].ret # LIBUSB_SUCCESS =>
            /\ i = Len(xfers)
            /\ exited
            /\ iopc = "exit"
            /\ ~returned

\* a write whose second data chunk failed
C9_Witness ==
    /\ op = "write"
    /\ exited
    /\ Len(xfers) = 2
    /\ xfers[2].kind = "data"
    /\ xfers[2].ret = LIBUSB_ERROR_IO

\* C10: the value qdl_write returns is the sum of the byte counts the
\* transport reported as transferred for the data chunks.
C10_ReturnsBytesWritten ==
    WriteReturned => result = reported

\* C20: for every len of size_t, lengths above INT_MAX included, a
\* qdl_write that returns has sent data chunks whose lengths sum to len and
\* has returned len.
C20_AllLengthsWritten ==
    WriteReturned =>
        /\ SumLens(DataXfers) = len
        /\ result = len

\* what qdl_write sends and returns: the int copy of len, when that copy
\* is positive, and nothing otherwise
WritesIntCopyOfLen ==
    WriteReturned =>
        /\ SumLens(DataXfers) = Max(ToInt(len), 0)
        /\ result = Max(ToInt(len), 0)

\* ------------------------------------------------------------------------
\* Properties of usb_open / parse_usb_desc (SpecUsb)
\* ------------------------------------------------------------------------

\* usb_open has returned 0 to its caller
UsbOpenSucceeded == usbret = 0

\* usb_open has returned an error to its caller
UsbOpenFailed == usbret \notin {0, NotReturned}

\* parse_usb_desc has chosen an interface of the current device and is
\* about to open the device
Selected == pc = "open"

\* parse_usb_desc fills in the session and returns 0
Populates == pc = "open" /\ pc' = "found"

\* C5: when usb_open returns success the session is fully populated: the
\* handle is the opened device, its interface is claimed, and in_ep,
\* in_maxpktsize, out_ep, out_maxpktsize are filled in from locals that were
\* assigned from a bulk-IN and a bulk-OUT endpoint read during enumeration;
\* when usb_open returns an error the session is untouched.
C5_SessionFullyPopulated ==
    /\ [](UsbOpenSucceeded =>
            /\ opened = <<qdl.handle - 1>>
            /\ claimed = <<<<qdl.handle, intf>>>>)
    /\ [](UsbOpenFailed => qdl = NoSession)
    /\ [][Populates =>
            /\ in # Indet /\ qdl'.in_ep = in
            /\ in_size # Indet /\ qdl'.in_maxpktsize = in_size
            /\ out # Indet /\ qdl'.out_ep = out
            /\ out_size # Indet /\ qdl'.out_maxpktsize = out_size]_vars

\* enumeration is looking at a device, configuration, interface or endpoint
Inspecting == pc \in {"dev_loop", "dev_desc", "cfg_loop", "intf_loop", "ep_loop"}

\* the descriptor reads among a set of libusb operations
Inspections(ops) ==
    {o \in ops : o[1] \in {"device_descriptor", "config_descriptor"}}

\* the step leaves device dev for the next one: its identity did not match,
\* or it had a malformed descriptor, or all its configurations were done
DeviceLeft ==
    \/ malformed'
    \/ pc = "dev_desc"
    \/ pc = "cfg_loop" /\ ~(cfg < desc.bNumConfigurations)

\* the step leaves configuration cfg for the next one: all its interfaces
\* were done
ConfigLeft == pc = "intf_loop" /\ ~(j < config.bNumInterfaces)

\* the step leaves interface j for the next one: its endpoints were scanned
\* and it reached the filter
InterfaceLeft == pc = "ep_loop" /\ ~(k < altsetting.bNumEndpoints)

\* enumeration goes through devices, configurations and interfaces in order
\* and passes over none
InOrder ==
    /\ dev' # dev => dev' = dev + 1 /\ DeviceLeft
    /\ dev' = dev /\ cfg' # cfg /\ Inspecting' =>
          cfg' = cfg + 1 /\ ConfigLeft
    /\ dev' = dev /\ cfg' = cfg /\ j' # j /\ Inspecting' =>
          \/ j' = j + 1 /\ InterfaceLeft
          \/ j' = 0 /\ pc = "cfg_loop"

\* C6: with well-formed descriptors the selected interface belongs to an
\* identity-matching device, has class 0xFF, subclass 0xFF and protocol 0xFF
\* or 0x10, and is the first such interface in device -> configuration ->
\* interface order: enumeration goes in that order, passes over nothing and
\* has skipped no interface with the signature; after the selection nothing
\* more is inspected or opened.
C6_FirstMatchingInterface ==
    /\ [](Selected /\ ~malformed =>
            /\ ~missed
            /\ SignatureOK(altsetting)
            /\ Len(devices) = dev + 1
            /\ devices[dev + 1] = [idVendor |-> QcVendor,
                                   idProduct |-> QcProduct])
    /\ [](Len(opened) <= 1)
    /\ [][InOrder]_vars
    /\ [][Selected \/ Len(opened) > 0 =>
            /\ ~Inspecting'
            /\ dev' = dev
            /\ devices' = devices
            /\ Inspections(usbOps') = Inspections(usbOps)]_vars

\* the second interface of the second configuration of the second device is
\* selected, after the first device, which has the identity, offered no
\* interface with the signature
C6_Witness ==
    /\ Selected
    /\ ~malformed
    /\ dev = 1
    /\ cfg = 1
    /\ j = 1
    /\ devices[1] = [idVendor |-> QcVendor, idProduct |-> QcProduct]
    /\ UsbOp("config_descriptor", 0) \in usbOps
    /\ altsetting.bInterfaceProtocol = 16

\* the libusb operations that read from or act on a device beyond its
\* device descriptor
DeviceOps == {"config_descriptor", "open", "claim"}

\* C7: a device whose vendor/product pair is not (0x05c6, 0x9008) is never
\* opened, none of its interfaces is claimed, and none of its configuration,
\* interface or endpoint descriptors is read, so nothing of it reaches the
\* session.
C7_IdentityMismatchNeverUsed ==
    /\ \A d \in 1 .. Len(devices) :
         devices[d] # [idVendor |-> QcVendor, idProduct |-> QcProduct] =>
            /\ \A o \in DeviceOps : UsbOp(o, d - 1) \notin usbOps
            /\ \A n \in 1 .. Len(opened) : opened[n] # d - 1
            /\ \A n \in 1 .. Len(claimed) : claimed[n][1] # d
            /\ qdl.handle # d
    /\ pc \in {"cfg_loop", "intf_loop", "ep_loop", "open", "found"} =>
         /\ Len(devices) = dev + 1
         /\ devices[dev + 1] = [idVendor |-> QcVendor, idProduct |-> QcProduct]

\* a session was opened on the second device after a first device with the
\* right vendor but the wrong product was passed over
C7_Witness ==
    /\ UsbOpenSucceeded
    /\ dev = 1
    /\ devices[1] = [idVendor |-> QcVendor, idProduct |-> 36873]
    /\ qdl.handle = 2

\* C14: a descriptor that was read but is malformed (wrong descriptor type,
\* interface too short) aborts the whole enumeration: after it no further
\* device is inspected or opened and usb_open produces no session.
C14_MalformedAborts ==
    /\ [][malformed =>
            /\ pc' # "dev_desc"
            /\ devices' = devices
            /\ opened' = opened
            /\ Inspections(usbOps') = Inspections(usbOps)]_vars
    /\ [](malformed => ~UsbOpenSucceeded /\ qdl = NoSession)

\* C14 as the code has it: a malformed descriptor ends the look at its
\* device only: the device is neither opened nor claimed, the session is
\* left alone and usb_open goes on to the next device of the list.
C14_MalformedSkipsDevice ==
    [][malformed' /\ ~malformed =>
            /\ dev' = dev + 1
            /\ pc' = "dev_loop"
            /\ opened' = opened
            /\ claimed' = claimed
            /\ qdl' = qdl]_vars

\* a session was opened on the second device after the first one showed a
\* malformed descriptor
C14_Witness ==
    /\ malformed
    /\ UsbOpenSucceeded
    /\ opened = <<1>>

\* C15: when usb_open returns after it obtained the device list, with a
\* session or with the not-found error, the list has been released exactly
\* once; it is never released more than once.
C15_DeviceListReleased ==
    /\ listFreed <= 1
    /\ UsbOpenSucceeded \/ UsbOpenFailed => listFreed = 1

\* what usb_open does: the list is released once on the path through
\* found, and not at all when it returns -ENOENT
ListReleasedWhenFound ==
    /\ UsbOpenSucceeded => listFreed = 1
    /\ UsbOpenFailed => listFreed = 0

\* a step of the endpoint loop that goes on to the next endpoint
ScanStep == pc = "ep_loop" /\ k' = k + 1

\* in / in_size hold the address and size of the bulk IN endpoint e
RecordedIn(e) ==
    /\ in = e.bEndpointAddress
    /\ in_size = e.wMaxPacketSize

\* out / out_size hold the address and size of the bulk OUT endpoint e
RecordedOut(e) ==
    /\ out = e.bEndpointAddress
    /\ out_size = e.wMaxPacketSize

\* C16: during and after the endpoint scan of an interface, the recorded
\* address and size of a direction are those of the last bulk endpoint of
\* that direction read in the interface, both from that one endpoint; a
\* scan step that reads no bulk endpoint of a direction (a non-bulk
\* endpoint, or a bulk endpoint of the other direction) leaves the recorded
\* address and size of that direction as they were.
C16_LastBulkEndpointWins ==
    /\ [](pc \in {"ep_loop", "open"} =>
            /\ endpoints.in # NoDesc => RecordedIn(endpoints.in)
            /\ endpoints.out # NoDesc => RecordedOut(endpoints.out))
    /\ [][ScanStep =>
            /\ endpoints'.bulk = endpoints.bulk =>
                  UNCHANGED <<in, in_size, out, out_size>>
            /\ endpoints'.in = endpoints.in => UNCHANGED <<in, in_size>>
            /\ endpoints'.out = endpoints.out => UNCHANGED <<out, out_size>>
       ]_vars

\* two bulk endpoints, both IN, were read in the selected interface and the
\* later one, 131 after an earlier one, is the one recorded
C16_Witness ==
    /\ pc = "open"
    /\ endpoints.bulk = 2
    /\ endpoints.out = NoDesc
    /\ endpoints.in.bEndpointAddress = 131
    /\ RecordedIn(endpoints.in)

\* a non-bulk endpoint was read after a bulk one and changed nothing
C16_NonBulkWitness ==
    /\ pc = "ep_loop"
    /\ k = 2
    /\ endpoints.bulk = 1
    /\ endpoints.out # NoDesc
    /\ RecordedOut(endpoints.out)
    /\ in = Indet

\* C18: whenever a session is populated, its endpoint numbers and packet
\* sizes are those of bulk endpoints read in the selected interface, the
\* one whose number is stored for claiming; nothing recorded while an
\* earlier interface or configuration was scanned reaches the session.
C18_EndpointsOfSelectedInterface ==
    [][Populates =>
         /\ intf' = altsetting.bInterfaceNumber
         /\ endpoints.in # NoDesc
         /\ endpoints.out # NoDesc
         /\ qdl'.in_ep = endpoints.in.bEndpointAddress
         /\ qdl'.in_maxpktsize = endpoints.in.wMaxPacketSize
         /\ qdl'.out_ep = endpoints.out.bEndpointAddress
         /\ qdl'.out_maxpktsize = endpoints.out.wMaxPacketSize
    ]_vars

\* the selected interface has no bulk IN endpoint, and in still holds the
\* address recorded from an interface scanned before it
StaleEndpointSelected ==
    /\ pc = "open"
    /\ endpoints.in = NoDesc
    /\ in # Indet

\* ------------------------------------------------------------------------
\* Properties of main
\* ------------------------------------------------------------------------

\* the engines invoked so far, in order
EngineNames == [n \in 1 .. Len(engines) |-> engines[n].name]

\* the support files of the command line: argv[optind+1 .. argc-1]
SupportFiles == 1 .. npos - 1

\* every support file has been classified once and its loader has returned
\* success once
AllStaged ==
    /\ npos >= 2
    /\ \A f \in SupportFiles :
          classified[f] = 1 /\ loaded[f] = 1 /\ f \in staged

\* C3: no USB operation (init, enumeration, open, claim, bulk transfer)
\* occurs before every support file has been classified and loaded with
\* success, and a run opens at most one device and claims at most one
\* interface.
C3_LoadBeforeUsb ==
    /\ usbOps # {} => AllStaged
    /\ Len(opened) <= 1
    /\ Len(claimed) <= 1

\* three support files were staged, then the device was opened, claimed and
\* driven by both engines
C3_Witness ==
    /\ npos = MaxFiles + 1
    /\ exitCode = 0
    /\ EngineNames = <<"sahara_run", "firehose_run">>
    /\ Len(opened) = 1
    /\ Len(claimed) = 1

\* file n is the first that fails: it is unparsable or Unknown, or its
\* loader reports failure
FirstFailure(n) ==
    /\ optind = n
    /\ cause \in {"detect_type", "patch_load", "program_load", "ufs_load"}

\* C4: when file n is the first to fail, every file before n was loaded
\* exactly once, no file after n is classified or loaded, no USB operation
\* occurs and the process exits non-zero.
C4_FirstFailureAborts ==
    \A n \in 1 .. MaxFiles :
        FirstFailure(n) =>
            /\ \A f \in 1 .. n - 1 : classified[f] = 1 /\ loaded[f] = 1
            /\ \A f \in n + 1 .. MaxFiles :
                  classified[f] = 0 /\ loaded[f] = 0
            /\ usbOps = {}
            /\ pc = "exit"
            /\ exitCode \notin {Running, 0}

\* the second of three support files fails to classify after the first was
\* loaded
C4_Witness ==
    /\ npos = 4
    /\ optind = 2
    /\ cause = "detect_type"
    /\ loaded[1] = 1
    /\ exitCode = 1

\* the loader of the second of three support files fails
C4_LoaderWitness ==
    /\ npos = 4
    /\ optind = 2
    /\ cause = "ufs_load"
    /\ loaded = [f \in 1 .. MaxFiles |-> IF f <= 2 THEN 1 ELSE 0]

\* an engine reported success
Succeeded(e) == e.ret >= 0

\* C11: usb_open, sahara_run, firehose_run run in that order, each at most
\* once: sahara_run only after usb_open returned 0, firehose_run only after
\* sahara_run reported success; and the process exits 0 exactly when
\* usb_open returned 0 and both engines reported success.
C11_EngineOrder ==
    /\ EngineNames \in {<<>>, <<"sahara_run">>,
                         <<"sahara_run", "firehose_run">>}
    /\ engines # <<>> => usbret = 0 /\ Len(opened) = 1 /\ Len(claimed) = 1
    /\ Len(engines) = 2 => Succeeded(engines[1])
    /\ exitCode = 0 =>
          /\ usbret = 0
          /\ Len(engines) = 2
          /\ \A n \in 1 .. 2 : Succeeded(engines[n])
    /\ (/\ exited
        /\ usbret = 0
        /\ Len(engines) = 2
        /\ \A n \in 1 .. 2 : Succeeded(engines[n])) => exitCode = 0

\* both engines ran and reported success, one of them with a positive
\* value, and the process exited 0
C11_Witness ==
    /\ exitCode = 0
    /\ Len(engines) = 2
    /\ engines[1].ret = 1
    /\ engines[2].ret = 0

\* the handshake engine failed and the flashing engine was not invoked
C11_HandshakeFailedWitness ==
    /\ exitCode = 1
    /\ EngineNames = <<"sahara_run">>
    /\ engines[1].ret < 0

\* main is past its argument checks
ArgsChecked == pc \notin {"getopt", "args"}

\* the run ended as a usage error: non-zero exit, and no classifier, loader,
\* USB operation or engine was invoked
UsageErrorOnly ==
    /\ pc = "exit"
    /\ exitCode \notin {Running, 0}
    /\ cause \in {"usage", "getopt_long"}
    /\ \A f \in 1 .. MaxFiles : classified[f] = 0 /\ loaded[f] = 0
    /\ usbOps = {}
    /\ engines = <<>>

C17_NotFoundReturned ==
    /\ [](UsbOpenFailed =>
            /\ usbret = -ENOENT
            /\ opened = <<>>
            /\ claimed = <<>>
            /\ qdl = NoSession
            /\ engines = <<>>
            /\ exitCode \in {Running, 1}
            /\ exitCode = Running => ENABLED UsbOpenFailedReturn)
    /\ [][UsbOpenFailed' /\ ~UsbOpenFailed =>
            exitCode' = Running /\ pc' = "usb_ret"]_vars
    /\ [][UsbOpenFailed /\ exitCode = Running =>
            exitCode' = 1 /\ cause' = "usb_open" /\ UNCHANGED <<engines, qdl>>
       ]_vars

\* a device with the right identity was inspected, none of its interfaces
\* was selected, and main has exited with status 1
C17_Witness ==
    /\ devices = <<[idVendor |-> QcVendor, idProduct |-> QcProduct]>>
    /\ usbret = -ENOENT
    /\ cause = "usb_open"
    /\ exitCode = 1
    /\ engines = <<>>

\* no attached device has the right identity
C17_NoDeviceWitness ==
    /\ devices # <<>>
    /\ devices[1] # [idVendor |-> QcVendor, idProduct |-> QcProduct]
    /\ usbret = -ENOENT
    /\ cause = "usb_open"
    /\ exitCode = 1

\* the loader main calls for a file of each kind that has one
LoaderOf(t) ==
    CASE t = QDL_FILE_PATCH -> "patch_load"
      [] t = QDL_FILE_PROGRAM -> "program_load"
      [] t = QDL_FILE_UFS -> "ufs_load"
      [] OTHER -> "none"

\* a loader is called in this step
LoaderCalled == loaded' # loaded

\* C19: a file classified as Contents gets no loader: the next step ends
\* the process with status 1 at that file, with every earlier file loaded
\* once, no later file classified or loaded and no USB operation. A loader
\* is called only for a Patch, Program or UFS file, it is the loader of
\* that kind, called once for the current file, and only ufs_load is given
\* the finalize flag.
C19_ContentsNotSupported ==
    /\ [][pc = "switch" /\ type = QDL_FILE_CONTENTS =>
            /\ cause' = "not_supported"
            /\ exitCode' = 1
            /\ pc' = "exit"
            /\ UNCHANGED <<loaded, lastLoad, staged, classified, optind>>
       ]_vars
    /\ [](cause = "not_supported" =>
            /\ type = QDL_FILE_CONTENTS
            /\ \A f \in 1 .. MaxFiles :
                 /\ f < optind => classified[f] = 1 /\ loaded[f] = 1
                 /\ f = optind => classified[f] = 1 /\ loaded[f] = 0
                 /\ f > optind => classified[f] = 0 /\ loaded[f] = 0
            /\ usbOps = {}
            /\ engines = <<>>)
    /\ [][LoaderCalled =>
            /\ type \in {QDL_FILE_PATCH, QDL_FILE_PROGRAM, QDL_FILE_UFS}
            /\ loaded' = [loaded EXCEPT ![optind] = 1]
            /\ lastLoad'.file = optind
            /\ lastLoad'.loader = LoaderOf(type)
            /\ lastLoad'.finalize =
                  (type = QDL_FILE_UFS /\ finalize)
       ]_vars

\* the second support file is a Contents file: the first was loaded, the
\* run ended there
C19_Witness ==
    /\ cause = "not_supported"
    /\ type = QDL_FILE_CONTENTS
    /\ npos = 4
    /\ optind = 2
    /\ loaded[1] = 1
    /\ exitCode = 1

\* ufs_load was called with the finalize flag set
C19_FinalizeWitness ==
    /\ lastLoad.loader = "ufs_load"
    /\ lastLoad.finalize

\* ------------------------------------------------------------------------
\* Properties of detect_type (SpecClassify)
\* ------------------------------------------------------------------------

\* a direct element child named program or ufs
IsKindChild(node) ==
    node.type = XML_ELEMENT_NODE /\ node.name \in {"program", "ufs"}

\* the kind the first such child of a data document gives, Unknown without
\* one
FirstKindChild(children) ==
    IF SelectSeq(children, IsKindChild) = <<>> THEN QDL_FILE_UNKNOWN
    ELSE IF Head(SelectSeq(children, IsKindChild)).name = "program"
         THEN QDL_FILE_PROGRAM
    ELSE QDL_FILE_UFS

\* the kind of a well-formed document
KindOf(d) ==
    CASE d.root = "patches" -> QDL_FILE_PATCH
      [] d.root = "data" -> FirstKindChild(d.children)
      [] d.root = "contents" -> QDL_FILE_CONTENTS
      [] OTHER -> QDL_FILE_UNKNOWN

\* C12: for a well-formed document detect_type returns Patch for root
\* patches, the kind of the first element child named program or ufs for
\* root data (Unknown without one), Contents for root contents and Unknown
\* for any other root; it never returns an error for such a document.
C12_DetectType ==
    pc = "done" /\ xml_file.parsed =>
        /\ type = KindOf(xml_file)
        /\ type >= 0

\* a data document whose children are <ufs/> then <program/> was classified
\* as storage provisioning
C12_Witness ==
    /\ pc = "done"
    /\ xml_file.parsed
    /\ xml_file.root = "data"
    /\ Len(xml_file.children) = 2
    /\ xml_file.children[1].name = "ufs"
    /\ xml_file.children[2].name = "program"
    /\ type = QDL_FILE_UFS

\* a well-formed document with an unrecognised root was classified Unknown
C12_UnknownWitness ==
    /\ pc = "done"
    /\ xml_file.parsed
    /\ xml_file.root = "widget"
    /\ type = QDL_FILE_UNKNOWN

====
